---------------------------- MODULE Spec2Model ----------------------------
(***************************************************************************)
(* Model of the Filmow collection exporter: filmow_scraper.py              *)
(* (FilmowScraper) and media_sorter.py (MediaSorter).                      *)
(*                                                                         *)
(* Text is modelled as sequences of one-character strings.  The word       *)
(* "Temporada" of the season marker is the single symbol "T": it holds     *)
(* none of the characters the code splits or tests on.                     *)
(***************************************************************************)
EXTENDS Integers, Sequences, FiniteSets, Bags, TLC

VARIABLES
    entry,        \* the public method the client called
    pc,           \* position of the calling (main) thread
    ret,          \* what the entry call handed back: a value or a raised exception
    full_title,   \* extract_title_info: its argument
    title_info,   \* extract_title_info: the returned pair
    max_retries,  \* Retry(total=max_retries) of the session's adapter
    max_workers,  \* self.max_workers
    req,          \* the main thread's session.get: attempts made, last outcome
    first_page,   \* history: the markup of the first-page response that the
                  \* client's own call of get_count_of_pages parsed
    count_ret,    \* what get_count_of_pages handed back
    log,          \* the records written to self.logger since the current
                  \* get_count_of_pages / get_media_category call began, as a bag
    media_type,   \* argument of get_media / get_media_category
    cat,          \* category of the current get_media_category call
    tasks,        \* the futures of the pool, by page number
    all_items,    \* get_media_category: the MediaItems gathered so far
    collection,   \* what get_media_category returned
    fetched,      \* history: the MediaItems the finished page fetches returned
    served,       \* history: the item fragments of the pages served with 2xx
    favorites,    \* self.favorites
    watched,      \* self.watched
    to_watch,     \* self.to_watch
    item_soup,    \* parse_media_item: the item fragment it is given
    media_item,   \* parse_media_item: what it returned, a MediaItem or None
    sort_input,   \* history: the list the client's sort call was given
    sort_list,    \* the client's list, which it passed to the sort call
    sort_args,    \* the other arguments of the sort call
    sorted_list,  \* the list the sort call returned
    sorted_again, \* the list the second sort call returned
    movies,       \* the lists an earlier get_media call returned, as its
                  \* caller holds them (movies_watched, movies_favorites,
                  \* movies_to_watch of get_all_media)
    call_fetched  \* history: the dictionaries of the MediaItems the page
                  \* fetches returned since the current get_media call began

titleVars == <<full_title, title_info>>
countVars == <<req, first_page, count_ret>>
poolVars == <<tasks, all_items, collection, fetched, served>>
selfVars == <<favorites, watched, to_watch>>
itemVars == <<item_soup, media_item>>
sortVars == <<sort_input, sort_list, sort_args, sorted_list, sorted_again>>
callVars == <<movies, call_fetched>>
vars == <<entry, pc, ret, full_title, title_info, max_retries, max_workers, req,
          first_page, count_ret, log, media_type, cat, tasks, all_items,
          collection, fetched, served, favorites, watched, to_watch, item_soup,
          media_item, sort_input, sort_list, sort_args, sorted_list, sorted_again,
          movies, call_fetched>>

(***************************************************************************)
(* Bounds of the model.                                                    *)
(***************************************************************************)
MaxParts == 6
MaxPages == 3
MaxMediaPages == 2
MaxRetries == 1
MaxAltParts == 3
MaxItems == 3

(***************************************************************************)
(* Python str operations, on sequences of characters.                      *)
(***************************************************************************)
Null == <<>>

\* s[i:] with i counted from 0
Drop(s, i) == SubSeq(s, i + 1, Len(s))

\* s[:-1]
DropLast(s) == SubSeq(s, 1, Len(s) - 1)

\* s.startswith(p)
StartsWith(s, p) == Len(p) <= Len(s) /\ SubSeq(s, 1, Len(p)) = p

\* s.endswith(p)
EndsWith(s, p) == Len(p) <= Len(s) /\ SubSeq(s, Len(s) - Len(p) + 1, Len(s)) = p

\* p in s
Contains(s, p) == \E i \in 1..(Len(s) - Len(p) + 1) : SubSeq(s, i, i + Len(p) - 1) = p

\* s.find(p), counted from 1; 0 when p is not in s
Find(s, p) ==
    IF Contains(s, p)
    THEN CHOOSE i \in 1..(Len(s) - Len(p) + 1) :
            /\ SubSeq(s, i, i + Len(p) - 1) = p
            /\ \A j \in 1..(i - 1) : SubSeq(s, j, j + Len(p) - 1) # p
    ELSE 0

\* s.split(sep): the parts between the non-overlapping occurrences of sep,
\* found left to right
RECURSIVE Split(_, _)
Split(s, sep) ==
    IF Find(s, sep) = 0
    THEN <<s>>
    ELSE <<SubSeq(s, 1, Find(s, sep) - 1)>>
            \o Split(Drop(s, Find(s, sep) - 1 + Len(sep)), sep)

\* s.strip(): the only whitespace of the alphabet is the blank
RECURSIVE LStrip(_)
LStrip(s) == IF s # <<>> /\ Head(s) = " " THEN LStrip(Tail(s)) ELSE s

RECURSIVE RStrip(_)
RStrip(s) == IF s # <<>> /\ s[Len(s)] = " " THEN RStrip(DropLast(s)) ELSE s

Strip(s) == LStrip(RStrip(s))

(***************************************************************************)
(* FilmowScraper.extract_title_info                                        *)
(***************************************************************************)
SeasonMarker == <<"T", ")">>

\* the 'Temporada)' branch
SeasonTitle(t) ==
    LET parts == Split(t, <<")", " ">>)
        portuguese_title == parts[1] \o <<")">>
        original_title ==
            IF Len(parts) > 1
            THEN IF StartsWith(parts[2], <<"(">>)
                 THEN SubSeq(parts[2], 2, Len(parts[2]) - 1)
                 ELSE parts[2]
            ELSE portuguese_title
    IN  <<portuguese_title, original_title>>

\* the ' (' ... ')' branch
MovieTitle(t) ==
    LET parts == Split(t, <<" ", "(">>)
    IN  <<parts[1], DropLast(parts[2])>>

extract_title_info(t) ==
    LET raw == IF Contains(t, SeasonMarker)
               THEN SeasonTitle(t)
               ELSE IF Contains(t, <<" ", "(">>) /\ EndsWith(t, <<")">>)
                    THEN MovieTitle(t)
                    ELSE <<t, t>>
    IN  <<Strip(raw[1]), Strip(raw[2])>>

(***************************************************************************)
(* Results of a call, and the scraper's log.                               *)
(***************************************************************************)
NoResult == [kind |-> "none", value |-> 0, exc |-> "none", msg |-> ""]

\* a key that no item has
UnknownKey == "Ano"

\* no sort call was made
NoSortArguments == [key |-> UnknownKey, reverse |-> FALSE, sort_keys |-> <<>>]

\* the lists of a get_media call, as the caller binds them (line 413);
\* bound is false while no call has returned
ReturnedLists(b, w, f, t) == [bound |-> b, watched |-> w, favorites |-> f, to_watch |-> t]

Return(v) == [kind |-> "return", value |-> v, exc |-> "none", msg |-> ""]

Raise(e, m) == [kind |-> "raise", value |-> 0, exc |-> e, msg |-> m]

\* one record of self.logger
LogRecord(level, event, msg) == [level |-> level, event |-> event, msg |-> msg]

Logged(level, event, msg) == SetToBag({LogRecord(level, event, msg)})

(***************************************************************************)
(* The session of __init__: every GET goes through an HTTPAdapter whose    *)
(* Retry re-attempts a transport failure or a status of the forcelist, at  *)
(* most max_retries times, inside session.get.                             *)
(***************************************************************************)
\* the outcome of an attempt that got no response (connection error, timeout)
TransportFailure == 0

StatusForcelist == {429, 500, 502, 503, 504}

\* no response, or one of the statuses the server answers with
Outcomes == {TransportFailure, 200, 404, 503}

NoRequest == [attempts |-> 0, last |-> 200, state |-> "idle"]

NewRequest == [attempts |-> 0, last |-> 200, state |-> "sending"]

Retryable(o) == o = TransportFailure \/ o \in StatusForcelist

\* one attempt of the request r with outcome o: the adapter sends again
\* while retries are left, raises when they are used up, and hands back
\* every response whose status is not in the forcelist; last is the outcome
\* the call ends with
AttemptNeverGivesUp(r, o, retries) ==
    [attempts |-> r.attempts + 1,
     last |-> IF Retryable(o) THEN r.last ELSE o,
     state |-> IF Retryable(o) THEN "sending" ELSE "response"]

Attempt(r, o, retries) ==
    LET again == Retryable(o) /\ r.attempts < retries
    IN  [attempts |-> r.attempts + 1,
         last |-> IF again THEN r.last ELSE o,
         state |-> IF again THEN "sending"
                   ELSE IF Retryable(o) THEN "raised" ELSE "response"]

\* the exception session.get or response.raise_for_status() raises for a
\* finished request (all are requests.RequestException), "none" for a 2xx
RequestError(r) ==
    IF r.state = "raised"
    THEN IF r.last = TransportFailure THEN "ConnectionError" ELSE "RetryError"
    ELSE IF r.last >= 400 THEN "HTTPError" ELSE "none"

RequestExceptions == {"ConnectionError", "RetryError", "HTTPError"}

(***************************************************************************)
(* The markup of a listing's first page, as get_count_of_pages queries it. *)
(* A link target is the sequence of its parts between "=" signs; a part is *)
(* an integer literal or other text (text "?pagina" ends with "?pagina").  *)
(***************************************************************************)
Txt(s) == [num |-> FALSE, n |-> 0, s |-> s]

Num(n) == [num |-> TRUE, n |-> n, s |-> ""]

\* a tag without href attribute
NoHref == <<>>

PageHref(k) == <<Txt("?pagina"), Num(k)>>

\* the link targets that name pages up to n, and some that name none
Hrefs(n) ==
    {PageHref(k) : k \in 0..n}
        \cup {<<Txt("/usuario")>>,
              <<Txt("?pagina"), Txt("x")>>,
              <<Txt("?ordem"), Txt("az&pagina"), Num(n)>>}

\* '?pagina=' in href
HasPagina(h) == \E i \in 1..(Len(h) - 1) : h[i].s = "?pagina"

\* int(href.split('=')[1])
PageNumberOf(h) ==
    IF Len(h) < 2
    THEN Raise("IndexError", "list index out of range")
    ELSE IF h[2].num
         THEN Return(h[2].n)
         ELSE Raise("ValueError", "invalid literal for int()")

NoLast == [present |-> FALSE, href |-> NoHref]

\* the element titled "última página"
Lasts(n) == {[present |-> TRUE, href |-> h] : h \in Hrefs(n) \cup {NoHref}}

\* a child of the pagination element: an <a> (with or without href) inside
\* an <li> or not, or an <li> without <a>; text is the number it shows (0: none)
Link(i, style) ==
    CASE style = "plain"     -> [li |-> FALSE, a |-> TRUE, href |-> NoHref, text |-> i]
      [] style = "li_page"   -> [li |-> TRUE, a |-> TRUE, href |-> PageHref(i), text |-> i]
      [] style = "li_nohref" -> [li |-> TRUE, a |-> TRUE, href |-> NoHref, text |-> i]
      [] style = "li_other"  -> [li |-> TRUE, a |-> TRUE, href |-> <<Txt("#")>>, text |-> i]
      [] OTHER               -> [li |-> TRUE, a |-> FALSE, href |-> NoHref, text |-> i]

NumberedLinks(n, style) == [i \in 1..n |-> Link(i, style)]

LinkSeqs(n) ==
    {NumberedLinks(k, st) \o tr :
        k \in 0..n, st \in {"plain", "li_page"},
        tr \in {<<>>, <<Link(0, "li_noa")>>, <<Link(0, "li_nohref")>>,
                <<Link(0, "li_other")>>}}

NoMarkup == [pag |-> "no response", last |-> NoLast, links |-> <<>>, items |-> 0]

\* pag: "none" (no element of class pagination), "plain" (class="pagination")
\* or "centered" (a div of class "pagination pagination-centered")
\* the first pages of listings of at most n pages
FirstPages(n) ==
    {[pag |-> "none", last |-> NoLast, links |-> <<>>, items |-> k] : k \in {0, 1}}
        \cup {[pag |-> p, last |-> l, links |-> <<>>, items |-> k] :
                p \in {"plain", "centered"}, l \in Lasts(n), k \in {0, 1}}
        \cup {[pag |-> p, last |-> NoLast, links |-> ls, items |-> k] :
                p \in {"plain", "centered"}, ls \in LinkSeqs(n), k \in {0, 1}}

\* the listings of a get_media run are the shorter ones, and those of two
\* get_media calls in a row have a single page
ListingPages(e) ==
    CASE e = "get_media" -> MaxMediaPages
      [] e = "get_media_twice" -> 1
      [] OTHER -> MaxPages

(***************************************************************************)
(* FilmowScraper.get_count_of_pages                                        *)
(***************************************************************************)
\* the <li> elements, from the last one, whose <a> names a '?pagina=' target
PageLinks(m) ==
    {i \in 1..Len(m.links) :
        /\ m.links[i].li
        /\ m.links[i].a
        /\ m.links[i].href # NoHref
        /\ HasPagina(m.links[i].href)}

Highest(S) == CHOOSE i \in S : \A j \in S : j <= i

\* lines 119-150: the page count read from the markup m, or what is raised
ParsePageCountStrict(m) ==
    IF m.pag = "none" /\ m.items > 0
    THEN Return(1)
    ELSE IF m.pag # "none" /\ m.last.present
         THEN IF m.last.href = NoHref
              THEN Raise("AttributeError", "'NoneType' object has no attribute 'split'")
              ELSE PageNumberOf(m.last.href)
         ELSE IF m.pag = "centered" /\ PageLinks(m) # {}
              THEN PageNumberOf(m.links[Highest(PageLinks(m))].href)
              ELSE IF m.items > 0
                   THEN Return(1)
                   ELSE Raise("ValueError", "Could not determine page count")

ParsePageCount(m) ==
    IF m.pag = "none"
    THEN Return(1)
    ELSE IF m.last.present
         THEN IF m.last.href = NoHref
              THEN Raise("AttributeError", "'NoneType' object has no attribute 'split'")
              ELSE PageNumberOf(m.last.href)
         ELSE IF m.pag = "centered" /\ PageLinks(m) # {}
              THEN PageNumberOf(m.links[Highest(PageLinks(m))].href)
              ELSE IF m.items > 0
                   THEN Return(1)
                   ELSE Raise("ValueError", "Could not determine page count")

\* lines 112-154 for the finished request r and the markup m of its
\* response: the result and what is logged
CountOfPagesUncaught(r, m) ==
    [ret |-> IF RequestError(r) # "none"
             THEN Raise(RequestError(r), "request failed")
             ELSE ParsePageCount(m),
     log |-> EmptyBag]

get_count_of_pages(r, m) ==
    LET body == IF RequestError(r) # "none"
                THEN Raise(RequestError(r), "request failed")
                ELSE ParsePageCount(m)
    IN  IF body.kind = "raise" /\ body.exc \in RequestExceptions \cup {"ValueError"}
        THEN [ret |-> Return(1), log |-> Logged("error", "page_count", body.msg)]
        ELSE [ret |-> body, log |-> EmptyBag]

(***************************************************************************)
(* Media types, categories, MediaItem and its dictionary.                  *)
(***************************************************************************)
MOVIES == "filmes"

TV_SHOWS == "series"

FAVORITES == "favoritos"

WATCHED == "ja-vi"

TO_WATCH == "quero-ver"

NoCategory == "none"

Categories == {FAVORITES, WATCHED, TO_WATCH}

\* user_rating is None; ratings are counted in tenths (45 is 4.5)
NoRating == -1

MediaItem(pt, orig, rating, fav) ==
    [title_portuguese |-> pt, title_original |-> orig,
     user_rating |-> rating, favorite |-> fav]

\* MediaItem.to_dict: the keys 'Nota do usuário' and 'Favorito' exist only
\* when has_nota and has_favorito say so
to_dict(it) ==
    [nacional |-> it.title_portuguese,
     original |-> it.title_original,
     has_nota |-> it.user_rating # NoRating,
     nota |-> it.user_rating,
     has_favorito |-> it.favorite,
     favorito |-> it.favorite]

ToDicts(items) == [i \in 1..Len(items) |-> to_dict(items[i])]

\* the elements of a sequence, as a bag
RECURSIVE SeqToBag(_)
SeqToBag(q) == IF q = <<>> THEN EmptyBag ELSE SetToBag({Head(q)}) (+) SeqToBag(Tail(q))

(***************************************************************************)
(* The item fragments (.movie_list_item) of a listing page.                *)
(*   wrapper: it holds a span of class wrapper; img: the span holds an     *)
(*   image; alt: the image's alt text (empty: absent or empty);            *)
(*   stars: the title of the star-rating span, split at blanks (empty:     *)
(*   no span or no title), a part being a number (in tenths) or other text *)
(***************************************************************************)
Fragment(wrapper, img, alt, stars) ==
    [wrapper |-> wrapper, img |-> img, alt |-> alt, stars |-> stars]

NoFragment == Fragment(FALSE, FALSE, <<>>, <<>>)

TitleA == <<"a">>

TitleB == <<"a", " ", "(", "b", ")">>

ItemA == Fragment(TRUE, TRUE, TitleA, <<Txt("Nota:"), Num(45), Txt("estrelas")>>)

ItemB == Fragment(TRUE, TRUE, TitleB, <<>>)

NoWrapperItem == Fragment(FALSE, FALSE, TitleA, <<>>)

NoImageItem == Fragment(TRUE, FALSE, TitleB, <<>>)

NoAltItem == Fragment(TRUE, TRUE, <<>>, <<Txt("Nota:"), Num(45)>>)

BadStarsItem == Fragment(TRUE, TRUE, TitleB, <<Txt("Nota:"), Txt("x")>>)

\* the pages a listing serves
PageContents ==
    {<<ItemA, NoWrapperItem, ItemB>>, <<NoAltItem, ItemA, NoImageItem>>}

(***************************************************************************)
(* FilmowScraper.extract_user_rating, parse_media_item, process_media_page *)
(***************************************************************************)
extract_user_rating(item) ==
    IF item.stars # <<>> /\ Len(item.stars) > 1
    THEN IF item.stars[2].num
         THEN [value |-> item.stars[2].n, log |-> EmptyBag]
         ELSE [value |-> NoRating,
               log |-> Logged("warning", "rating", "could not convert string to float")]
    ELSE [value |-> NoRating, log |-> EmptyBag]

NoItem == [ok |-> FALSE, item |-> MediaItem(<<>>, <<>>, NoRating, FALSE)]

\* what parse_media_item returns (ok: a MediaItem, not None) and logs
parse_media_item(item, category) ==
    IF ~item.wrapper
    THEN NoItem @@ [log |-> Logged("warning", "item", "Wrapper span not found in item")]
    ELSE IF ~item.img
         THEN NoItem @@ [log |-> Logged("warning", "item", "Image not found in wrapper span")]
         ELSE IF item.alt = <<>>
              THEN NoItem @@ [log |-> Logged("warning", "item",
                                             "Alt attribute not found or empty in image")]
              ELSE LET titles == extract_title_info(item.alt)
                       rating == IF category \in {WATCHED, FAVORITES}
                                 THEN extract_user_rating(item)
                                 ELSE [value |-> NoRating, log |-> EmptyBag]
                   IN  [ok |-> TRUE,
                        item |-> MediaItem(titles[1], titles[2], rating.value,
                                           category = FAVORITES),
                        log |-> rating.log]

\* a page that gives up at its first item that cannot be parsed
RECURSIVE ParseItemsUntilBad(_, _)
ParseItemsUntilBad(media_list, category) ==
    IF media_list = <<>>
    THEN [result |-> <<>>, log |-> EmptyBag]
    ELSE LET first == parse_media_item(Head(media_list), category)
             rest == ParseItemsUntilBad(Tail(media_list), category)
         IN  IF first.ok
             THEN [result |-> <<first.item>> \o rest.result, log |-> first.log (+) rest.log]
             ELSE [result |-> <<>>, log |-> first.log]

\* lines 291-299: the loop over the item fragments of a page
RECURSIVE ParseItems(_, _)
ParseItems(media_list, category) ==
    IF media_list = <<>>
    THEN [result |-> <<>>, log |-> EmptyBag]
    ELSE LET first == parse_media_item(Head(media_list), category)
             rest == ParseItems(Tail(media_list), category)
         IN  [result |-> (IF first.ok THEN <<first.item>> ELSE <<>>) \o rest.result,
              log |-> first.log (+) rest.log]

\* the loop's outcome for the pages of PageContents, computed once
ParsedPages == [c \in PageContents |-> [k \in Categories |-> ParseItems(c, k)]]

\* lines 277-306 for the finished request r and the fragments of its response
process_media_page(r, media_list, category) ==
    IF RequestError(r) # "none"
    THEN [result |-> <<>>, log |-> Logged("error", "fetch_page", "request failed")]
    ELSE IF media_list \in PageContents
         THEN ParsedPages[media_list][category]
         ELSE ParseItems(media_list, category)

(***************************************************************************)
(* The pool of get_media_category: one future per page.                    *)
(***************************************************************************)
WorkerCounts == {1, 2, 5}

QueuedTask == [state |-> "queued", req |-> NoRequest, result |-> <<>>]

\* the futures submitted for the pages 1..page_count
SubmitAll(page_count) == [page \in 1..page_count |-> QueuedTask]

Running(ts) == Cardinality({p \in 1..Len(ts) : ts[p].state = "running"})

\* the pool takes the queued work in the order of its submission
NextQueued(ts, p) ==
    /\ ts[p].state = "queued"
    /\ \A q \in 1..(p - 1) : ts[q].state # "queued"

\* as_completed has handed every future to the loop
SomeTaken(ts) == \E p \in 1..Len(ts) : ts[p].state = "taken"

AllTaken(ts) == \A p \in 1..Len(ts) : ts[p].state = "taken"

\* all_items.extend(items)
KeepLatest(items, result) == result

Extend(items, result) == items \o result

(***************************************************************************)
(* FilmowScraper.get_media: the favourites cross-reference, lines 380-386  *)
(***************************************************************************)
TitlePair(d) == <<d.nacional, d.original>>

favorite_titles(favs) == {TitlePair(favs[i]) : i \in 1..Len(favs)}

MarkFavoritesByLocalTitle(watched_items, favs) ==
    [i \in 1..Len(watched_items) |->
        [watched_items[i] EXCEPT
            !.has_favorito = TRUE,
            !.favorito = \E j \in 1..Len(favs) : favs[j].nacional = watched_items[i].nacional]]

MarkFavorites(watched_items, favs) ==
    [i \in 1..Len(watched_items) |->
        [watched_items[i] EXCEPT
            !.has_favorito = TRUE,
            !.favorito = TitlePair(watched_items[i]) \in favorite_titles(favs)]]

(***************************************************************************)
(* Raw titles: every text of at most MaxParts of these pieces.             *)
(***************************************************************************)
TitlePieces == {<<"a">>, <<"b">>, <<" ">>, <<" ", "(">>, <<")">>, <<"T", ")">>}

RECURSIVE TitlesOfParts(_)
TitlesOfParts(n) ==
    IF n = 0
    THEN {<<>>}
    ELSE LET shorter == TitlesOfParts(n - 1)
         IN  shorter \cup {t \o p : t \in shorter, p \in TitlePieces}

(***************************************************************************)
(* The title normalizer on its own: the client calls extract_title_info.   *)
(***************************************************************************)
InitTitle ==
    /\ entry = "extract_title_info"
    /\ pc = "call"
    /\ ret = NoResult
    /\ full_title \in TitlesOfParts(MaxParts)
    /\ title_info = Null
    /\ max_retries = MaxRetries
    /\ req = NoRequest
    /\ first_page = NoMarkup
    /\ count_ret = NoResult
    /\ log = EmptyBag
    /\ max_workers = 1
    /\ media_type = MOVIES
    /\ cat = NoCategory
    /\ tasks = <<>>
    /\ all_items = <<>>
    /\ collection = <<>>
    /\ fetched = EmptyBag
    /\ served = EmptyBag
    /\ favorites = <<>>
    /\ watched = <<>>
    /\ to_watch = <<>>
    /\ item_soup = NoFragment
    /\ media_item = NoItem
    /\ sort_input = <<>>
    /\ sort_list = <<>>
    /\ sort_args = NoSortArguments
    /\ sorted_list = <<>>
    /\ sorted_again = <<>>
    /\ movies = ReturnedLists(FALSE, <<>>, <<>>, <<>>)
    /\ call_fetched = EmptyBag

ExtractTitleInfo ==
    /\ entry = "extract_title_info"
    /\ pc = "call"
    /\ title_info' = extract_title_info(full_title)
    /\ pc' = "returned"
    /\ UNCHANGED <<entry, itemVars, sortVars, callVars, ret, full_title, max_retries, max_workers, countVars, log,
                   media_type, cat, poolVars, selfVars>>

NextTitle == ExtractTitleInfo

SpecTitle == InitTitle /\ [][NextTitle]_vars

(***************************************************************************)
(* The item parser on its own: the client calls parse_media_item with one  *)
(* item fragment of a listing page.                                        *)
(***************************************************************************)
\* an image is looked for inside the wrapper span only; the title attribute
\* of the star-rating span: none, a rating, no number
ItemFragments ==
    {Fragment(wi[1], wi[2], alt, stars) :
        wi \in {<<TRUE, TRUE>>, <<TRUE, FALSE>>, <<FALSE, FALSE>>},
        alt \in TitlesOfParts(MaxAltParts),
        stars \in {<<>>, <<Txt("Nota:"), Num(45), Txt("estrelas")>>,
                   <<Txt("Nota:"), Txt("x")>>}}

InitItem ==
    /\ entry = "parse_media_item"
    /\ pc = "call"
    /\ ret = NoResult
    /\ full_title = Null
    /\ title_info = Null
    /\ max_retries = MaxRetries
    /\ req = NoRequest
    /\ first_page = NoMarkup
    /\ count_ret = NoResult
    /\ log = EmptyBag
    /\ max_workers = 1
    /\ media_type = MOVIES
    /\ cat \in Categories
    /\ tasks = <<>>
    /\ all_items = <<>>
    /\ collection = <<>>
    /\ fetched = EmptyBag
    /\ served = EmptyBag
    /\ favorites = <<>>
    /\ watched = <<>>
    /\ to_watch = <<>>
    /\ item_soup \in ItemFragments
    /\ media_item = NoItem
    /\ sort_input = <<>>
    /\ sort_list = <<>>
    /\ sort_args = NoSortArguments
    /\ sorted_list = <<>>
    /\ sorted_again = <<>>
    /\ movies = ReturnedLists(FALSE, <<>>, <<>>, <<>>)
    /\ call_fetched = EmptyBag

ParseMediaItem ==
    /\ entry = "parse_media_item"
    /\ pc = "call"
    /\ LET parsed == parse_media_item(item_soup, cat)
       IN  /\ media_item' = [ok |-> parsed.ok, item |-> parsed.item]
           /\ log' = log (+) parsed.log
    /\ pc' = "returned"
    /\ UNCHANGED <<entry, ret, titleVars, max_retries, max_workers, countVars,
                   media_type, cat, poolVars, selfVars, item_soup, sortVars, callVars>>

NextItem == ParseMediaItem

SpecItem == InitItem /\ [][NextItem]_vars

(***************************************************************************)
(* get_count_of_pages called on its own.                                   *)
(***************************************************************************)
InitPages ==
    /\ entry = "get_count_of_pages"
    /\ pc = "call"
    /\ ret = NoResult
    /\ full_title = Null
    /\ title_info = Null
    /\ max_retries = MaxRetries
    /\ req = NoRequest
    /\ first_page = NoMarkup
    /\ count_ret = NoResult
    /\ log = EmptyBag
    /\ max_workers = 1
    /\ media_type = MOVIES
    /\ cat = NoCategory
    /\ tasks = <<>>
    /\ all_items = <<>>
    /\ collection = <<>>
    /\ fetched = EmptyBag
    /\ served = EmptyBag
    /\ favorites = <<>>
    /\ watched = <<>>
    /\ to_watch = <<>>
    /\ item_soup = NoFragment
    /\ media_item = NoItem
    /\ sort_input = <<>>
    /\ sort_list = <<>>
    /\ sort_args = NoSortArguments
    /\ sorted_list = <<>>
    /\ sorted_again = <<>>
    /\ movies = ReturnedLists(FALSE, <<>>, <<>>, <<>>)
    /\ call_fetched = EmptyBag

\* line 110: the call, up to the request being sent
GetCountOfPagesCall ==
    /\ entry = "get_count_of_pages"
    /\ pc = "call"
    /\ pc' = "count_get"
    /\ req' = NewRequest
    /\ UNCHANGED <<entry, itemVars, sortVars, callVars, ret, titleVars, max_retries, max_workers, first_page,
                   count_ret, log, media_type, cat, poolVars, selfVars>>

\* lines 113-154: one attempt of session.get; when it is the last one (a
\* response, or the retries used up) the rest of the function runs
GetCountOfPages ==
    /\ pc = "count_get"
    /\ \E o \in Outcomes :
        LET r == Attempt(req, o, max_retries)
        IN  /\ req' = r
            /\ IF r.state = "sending"
               THEN UNCHANGED <<pc, ret, first_page, count_ret, log>>
               ELSE \E m \in (IF RequestError(r) = "none"
                             THEN FirstPages(ListingPages(entry)) ELSE {NoMarkup}) :
                        LET res == get_count_of_pages(r, m)
                        IN  /\ first_page' = IF entry = "get_count_of_pages"
                                              THEN m ELSE NoMarkup
                            /\ count_ret' = res.ret
                            /\ log' = log (+) res.log
                            /\ IF entry = "get_count_of_pages"
                               THEN pc' = "returned" /\ ret' = res.ret
                               ELSE pc' = "counted" /\ UNCHANGED ret
    /\ UNCHANGED <<entry, itemVars, sortVars, callVars, titleVars, max_retries, max_workers, media_type, cat,
                   poolVars, selfVars>>

NextPages == GetCountOfPagesCall \/ GetCountOfPages

SpecPages == InitPages /\ [][NextPages]_vars

(***************************************************************************)
(* get_media_category: the page count, the pool, the gathering loop.       *)
(***************************************************************************)
InitCategory ==
    /\ entry = "get_media_category"
    /\ pc = "call"
    /\ ret = NoResult
    /\ full_title = Null
    /\ title_info = Null
    /\ max_retries = MaxRetries
    /\ max_workers \in WorkerCounts
    /\ req = NoRequest
    /\ first_page = NoMarkup
    /\ count_ret = NoResult
    /\ log = EmptyBag
    /\ media_type = MOVIES
    /\ cat \in Categories
    /\ tasks = <<>>
    /\ all_items = <<>>
    /\ collection = <<>>
    /\ fetched = EmptyBag
    /\ served = EmptyBag
    /\ favorites = <<>>
    /\ watched = <<>>
    /\ to_watch = <<>>
    /\ item_soup = NoFragment
    /\ media_item = NoItem
    /\ sort_input = <<>>
    /\ sort_list = <<>>
    /\ sort_args = NoSortArguments
    /\ sorted_list = <<>>
    /\ sorted_again = <<>>
    /\ movies = ReturnedLists(FALSE, <<>>, <<>>, <<>>)
    /\ call_fetched = EmptyBag

\* line 320: the call, up to the first-page request being sent
GetMediaCategoryCall ==
    /\ entry = "get_media_category"
    /\ pc = "call"
    /\ pc' = "count_get"
    /\ req' = NewRequest
    /\ UNCHANGED <<entry, itemVars, sortVars, callVars, ret, titleVars, max_retries, max_workers, first_page,
                   count_ret, log, media_type, cat, poolVars, selfVars>>

\* lines 320-329, and 345-347 when get_count_of_pages raised: the futures
\* of the pages 1..page_count are submitted
Submit ==
    /\ pc = "counted"
    /\ IF count_ret.kind = "raise"
       THEN /\ log' = log (+) Logged("error", "category", count_ret.msg)
            /\ collection' = <<>>
            /\ tasks' = <<>>
            /\ pc' = "collected"
       ELSE /\ log' = log (+) Logged("info", "extracting", "pages detected")
            /\ collection' = <<>>
            /\ tasks' = SubmitAll(count_ret.value)
            /\ pc' = "pool"
    /\ all_items' = <<>>
    /\ req' = NoRequest
    /\ first_page' = NoMarkup
    /\ count_ret' = NoResult
    /\ UNCHANGED <<entry, itemVars, sortVars, callVars, ret, titleVars, max_retries, max_workers, media_type, cat,
                   fetched, served, selfVars>>

\* a free worker of the pool takes the next page and sends its request
\* (lines 277-284)
WorkerStart ==
    /\ pc = "pool"
    /\ Running(tasks) < max_workers
    /\ \E p \in 1..Len(tasks) :
        /\ NextQueued(tasks, p)
        /\ tasks' = [tasks EXCEPT ![p] = [state |-> "running", req |-> NewRequest,
                                          result |-> <<>>]]
    /\ UNCHANGED <<entry, itemVars, sortVars, callVars, pc, ret, titleVars, max_retries, max_workers, countVars, log,
                   media_type, cat, all_items, collection, fetched, served, selfVars>>

\* lines 281-306 in a worker: one attempt of session.get; when it is the
\* last one the page is parsed and the future is done
ProcessMediaPage ==
    /\ pc = "pool"
    /\ \E p \in 1..Len(tasks), o \in Outcomes :
        /\ tasks[p].state = "running"
        /\ LET r == Attempt(tasks[p].req, o, max_retries)
           IN  IF r.state = "sending"
               THEN /\ tasks' = [tasks EXCEPT ![p].req = r]
                    /\ UNCHANGED <<log, fetched, served, call_fetched>>
               ELSE \E media_list \in (IF RequestError(r) = "none"
                                       THEN PageContents ELSE {<<>>}) :
                        LET res == process_media_page(r, media_list, cat)
                        IN  /\ tasks' = [tasks EXCEPT ![p] = [state |-> "done",
                                                              req |-> NoRequest,
                                                              result |-> res.result]]
                            /\ log' = log (+) res.log
                            /\ fetched' = fetched (+) SeqToBag(res.result)
                            /\ served' = served (+) SeqToBag(media_list)
                            /\ call_fetched' = call_fetched
                                                    (+) SeqToBag(ToDicts(res.result))
    /\ UNCHANGED <<entry, itemVars, sortVars, movies, pc, ret, titleVars, max_retries, max_workers, countVars,
                   media_type, cat, all_items, collection, selfVars>>

\* lines 331-341: as_completed hands a finished future to the loop, which
\* extends all_items with its result; the future is not read again
TakeResult ==
    /\ pc = "pool"
    /\ \E p \in 1..Len(tasks) :
        /\ tasks[p].state = "done"
        /\ all_items' = Extend(all_items, tasks[p].result)
        /\ tasks' = [tasks EXCEPT ![p] = [state |-> "taken", req |-> NoRequest,
                                          result |-> <<>>]]
    /\ UNCHANGED <<entry, itemVars, sortVars, callVars, pc, ret, titleVars, max_retries, max_workers, countVars, log,
                   media_type, cat, collection, fetched, served, selfVars>>

\* line 343: the loop has seen every future, the dictionaries are returned
CategoryReturn ==
    /\ pc = "pool"
    /\ AllTaken(tasks)
    /\ collection' = ToDicts(all_items)
    /\ pc' = "collected"
    /\ UNCHANGED <<entry, itemVars, sortVars, callVars, ret, titleVars, max_retries, max_workers, countVars, log,
                   media_type, cat, tasks, all_items, fetched, served, selfVars>>

NextCategory ==
    \/ GetMediaCategoryCall
    \/ GetCountOfPages
    \/ Submit
    \/ WorkerStart
    \/ ProcessMediaPage
    \/ TakeResult
    \/ CategoryReturn

SpecCategory == InitCategory /\ [][NextCategory]_vars

(***************************************************************************)
(* get_media: favourites, then watched with the cross-reference, then      *)
(* to-watch.                                                               *)
(***************************************************************************)
MediaTypeArguments == {MOVIES, "livros"}

\* a pool that runs one page at a time and the constructor's default pool
MediaWorkerCounts == {1, 5}

Init ==
    /\ entry = "get_media"
    /\ pc = "call"
    /\ ret = NoResult
    /\ full_title = Null
    /\ title_info = Null
    /\ max_retries = MaxRetries
    /\ max_workers \in MediaWorkerCounts
    /\ req = NoRequest
    /\ first_page = NoMarkup
    /\ count_ret = NoResult
    /\ log = EmptyBag
    /\ media_type \in MediaTypeArguments
    /\ cat = NoCategory
    /\ tasks = <<>>
    /\ all_items = <<>>
    /\ collection = <<>>
    /\ fetched = EmptyBag
    /\ served = EmptyBag
    /\ favorites = <<>>
    /\ watched = <<>>
    /\ to_watch = <<>>
    /\ item_soup = NoFragment
    /\ media_item = NoItem
    /\ sort_input = <<>>
    /\ sort_list = <<>>
    /\ sort_args = NoSortArguments
    /\ sorted_list = <<>>
    /\ sorted_again = <<>>
    /\ movies = ReturnedLists(FALSE, <<>>, <<>>, <<>>)
    /\ call_fetched = EmptyBag

\* the state of a get_media_category call that has just been entered
EnterCategory(category) ==
    /\ cat' = category
    /\ pc' = "count_get"
    /\ req' = NewRequest
    /\ log' = EmptyBag
    /\ tasks' = <<>>
    /\ all_items' = <<>>
    /\ collection' = <<>>
    /\ fetched' = EmptyBag
    /\ served' = EmptyBag

\* lines 363-365 bind self.watched, self.favorites and self.to_watch to new
\* lists: the list objects an earlier call returned keep their items
ClearedInPlace(held) ==
    [held EXCEPT !.watched = <<>>, !.favorites = <<>>, !.to_watch = <<>>]

ResetLists(held) == held

\* get_media with the lists reset before the media type is checked
GetMediaCallResetFirst ==
    /\ entry \in {"get_media", "get_media_twice"}
    /\ pc = "call"
    /\ favorites' = <<>>
    /\ watched' = <<>>
    /\ to_watch' = <<>>
    /\ movies' = ResetLists(movies)
    /\ IF media_type \notin {MOVIES, TV_SHOWS}
       THEN /\ ret' = Raise("ValueError", "Invalid media type")
            /\ pc' = "returned"
            /\ UNCHANGED <<req, log, cat, poolVars, call_fetched>>
       ELSE /\ call_fetched' = EmptyBag
            /\ EnterCategory(FAVORITES)
            /\ UNCHANGED ret
    /\ UNCHANGED <<entry, itemVars, sortVars, titleVars, max_retries, max_workers, first_page, count_ret,
                   media_type>>

\* lines 359-371: the media type is checked, the lists are reset and the
\* favourites are asked for
GetMediaCall ==
    /\ entry \in {"get_media", "get_media_twice"}
    /\ pc = "call"
    /\ IF media_type \notin {MOVIES, TV_SHOWS}
       THEN /\ ret' = Raise("ValueError", "Invalid media type")
            /\ pc' = "returned"
            /\ UNCHANGED <<req, log, cat, poolVars, selfVars, callVars>>
       ELSE /\ favorites' = <<>>
            /\ watched' = <<>>
            /\ to_watch' = <<>>
            /\ movies' = ResetLists(movies)
            /\ call_fetched' = EmptyBag
            /\ EnterCategory(FAVORITES)
            /\ UNCHANGED ret
    /\ UNCHANGED <<entry, itemVars, sortVars, titleVars, max_retries, max_workers, first_page, count_ret,
                   media_type>>

\* lines 368-377: the favourites are stored and the watched list is asked for
GetMediaFavorites ==
    /\ entry \in {"get_media", "get_media_twice"}
    /\ pc = "collected"
    /\ cat = FAVORITES
    /\ favorites' = collection
    /\ EnterCategory(WATCHED)
    /\ UNCHANGED <<entry, itemVars, sortVars, callVars, ret, titleVars, max_retries, max_workers, first_page,
                   count_ret, media_type, watched, to_watch>>

\* lines 374-394: the watched records are marked and stored, and the
\* to-watch list is asked for
GetMediaWatched ==
    /\ entry \in {"get_media", "get_media_twice"}
    /\ pc = "collected"
    /\ cat = WATCHED
    /\ watched' = MarkFavorites(collection, favorites)
    /\ EnterCategory(TO_WATCH)
    /\ UNCHANGED <<entry, itemVars, sortVars, callVars, ret, titleVars, max_retries, max_workers, first_page,
                   count_ret, media_type, favorites, to_watch>>

\* lines 391-396: the to-watch list is stored and the three lists returned
GetMediaReturn ==
    /\ entry \in {"get_media", "get_media_twice"}
    /\ pc = "collected"
    /\ cat = TO_WATCH
    /\ to_watch' = collection
    /\ ret' = Return(0)
    /\ pc' = "returned"
    /\ UNCHANGED <<entry, itemVars, sortVars, callVars, titleVars, max_retries, max_workers, countVars, log,
                   media_type, cat, poolVars, favorites, watched>>

Next ==
    \/ GetMediaCall
    \/ GetCountOfPages
    \/ Submit
    \/ WorkerStart
    \/ ProcessMediaPage
    \/ TakeResult
    \/ CategoryReturn
    \/ GetMediaFavorites
    \/ GetMediaWatched
    \/ GetMediaReturn

Spec == Init /\ [][Next]_vars

\* every attempt of session.get ends (timeout=self.timeout, lines 115 and
\* 283, and Retry's finite backoff), the pool's threads run, and the calling
\* thread goes on when the call it waits for has returned: a step that can
\* be taken is taken
SpecFair == Spec /\ WF_vars(Next)

(***************************************************************************)
(* Two get_media calls in a row on one scraper, as get_all_media makes     *)
(* them (lines 413-418): movies first, then a call whose argument is TV    *)
(* shows, as in get_all_media, or a media type that get_media rejects.     *)
(***************************************************************************)
InitCalls ==
    /\ entry = "get_media_twice"
    /\ pc = "call"
    /\ ret = NoResult
    /\ full_title = Null
    /\ title_info = Null
    /\ max_retries = MaxRetries
    /\ max_workers \in MediaWorkerCounts
    /\ req = NoRequest
    /\ first_page = NoMarkup
    /\ count_ret = NoResult
    /\ log = EmptyBag
    /\ media_type = MOVIES
    /\ cat = NoCategory
    /\ tasks = <<>>
    /\ all_items = <<>>
    /\ collection = <<>>
    /\ fetched = EmptyBag
    /\ served = EmptyBag
    /\ favorites = <<>>
    /\ watched = <<>>
    /\ to_watch = <<>>
    /\ item_soup = NoFragment
    /\ media_item = NoItem
    /\ sort_input = <<>>
    /\ sort_list = <<>>
    /\ sort_args = NoSortArguments
    /\ sorted_list = <<>>
    /\ sorted_again = <<>>
    /\ movies = ReturnedLists(FALSE, <<>>, <<>>, <<>>)
    /\ call_fetched = EmptyBag

\* lines 413-418: the caller binds the three lists the first call returned
\* and calls get_media again
SecondGetMedia ==
    /\ entry = "get_media_twice"
    /\ pc = "returned"
    /\ ~movies.bound
    /\ movies' = ReturnedLists(TRUE, watched, favorites, to_watch)
    /\ \E t \in {TV_SHOWS, "livros"} : media_type' = t
    /\ ret' = NoResult
    /\ pc' = "call"
    /\ UNCHANGED <<entry, itemVars, sortVars, call_fetched, titleVars, max_retries, max_workers,
                   countVars, log, cat, poolVars, selfVars>>

NextCalls ==
    \/ GetMediaCall
    \/ GetCountOfPages
    \/ Submit
    \/ WorkerStart
    \/ ProcessMediaPage
    \/ TakeResult
    \/ CategoryReturn
    \/ GetMediaFavorites
    \/ GetMediaWatched
    \/ GetMediaReturn
    \/ SecondGetMedia

SpecCalls == InitCalls /\ [][NextCalls]_vars

(***************************************************************************)
(* MediaSorter (media_sorter.py).  A media item is a dict; the value of a  *)
(* key is a str, a number (in tenths) or a bool, or the key is missing.    *)
(***************************************************************************)
TitleKey == "Titulo nacional"
RatingKey == "Nota do usuario"
FavoriteKey == "Favorito"

ItemKeys == {TitleKey, RatingKey, FavoriteKey}

Missing == [kind |-> "missing", s |-> <<>>, n |-> 0, b |-> FALSE]
Str(s) == [kind |-> "str", s |-> s, n |-> 0, b |-> FALSE]
Number(n) == [kind |-> "num", s |-> <<>>, n |-> n, b |-> FALSE]
Bool(b) == [kind |-> "bool", s |-> <<>>, n |-> 0, b |-> b]

Dict(title, rating, favorite) ==
    (TitleKey :> title) @@ (RatingKey :> rating) @@ (FavoriteKey :> favorite)

\* key in item
HasKey(item, key) == key \in ItemKeys /\ item[key].kind # "missing"

\* item.get(key): Missing stands for None
Get(item, key) == IF key \in ItemKeys THEN item[key] ELSE Missing

\* str.lower()
LowerChar(c) ==
    CASE c = "A" -> "a"
      [] c = "B" -> "b"
      [] c = "S" -> "s"
      [] c = "I" -> "i"
      [] c = "M" -> "m"
      [] OTHER -> c

Lower(s) == [i \in 1..Len(s) |-> LowerChar(s[i])]

\* code points of the characters of the model's titles
Ord(c) ==
    CASE c = " " -> 32
      [] c = "A" -> 65
      [] c = "B" -> 66
      [] c = "a" -> 97
      [] c = "b" -> 98
      [] c = "c" -> 99
      [] OTHER -> 120

\* s < t for two str
RECURSIVE StrLess(_, _)
StrLess(s, t) ==
    IF t = <<>> THEN FALSE
    ELSE IF s = <<>> THEN TRUE
    ELSE IF Ord(Head(s)) # Ord(Head(t)) THEN Ord(Head(s)) < Ord(Head(t))
    ELSE StrLess(Tail(s), Tail(t))

\* str.replace(',', '.')
CommaToDot(s) == [i \in 1..Len(s) |-> IF s[i] = "," THEN "." ELSE s[i]]

Digits == {"0", "5", "8", "9"}

DigitValue(c) == CASE c = "0" -> 0 [] c = "5" -> 5 [] c = "8" -> 8 [] OTHER -> 9

RECURSIVE DigitsValue(_)
DigitsValue(s) ==
    IF s = <<>> THEN 0 ELSE 10 * DigitsValue(DropLast(s)) + DigitValue(s[Len(s)])

AllDigits(s) == \A i \in 1..Len(s) : s[i] \in Digits

\* float of a decimal text given as its digits before and after the point,
\* in tenths; ok is FALSE where float raises ValueError
FloatOf(whole, frac, points) ==
    IF /\ points <= 1
       /\ AllDigits(whole) /\ AllDigits(frac)
       /\ Len(whole) + Len(frac) > 0
       /\ Len(frac) <= 1
    THEN [ok |-> TRUE, n |-> 10 * DigitsValue(whole) + DigitsValue(frac)]
    ELSE [ok |-> FALSE, n |-> 0]

FloatOfParts(parts) ==
    FloatOf(parts[1], IF Len(parts) > 1 THEN parts[2] ELSE <<>>, Len(parts) - 1)

\* float(s) for the decimal strings of the model
ToFloat(s) == FloatOfParts(Split(s, <<".">>))

\* str(value): the values of the keys compared as strings are str
StrOf(v) == v.s

\* sort_by_title.get_sort_key
get_sort_key(item, title_key) ==
    LET value == Get(item, title_key)
    IN  IF value.kind = "missing" THEN <<>> ELSE Lower(StrOf(value))

\* the float of a parsed text, 0.0 where float raised
FloatOrZero(f) == IF f.ok THEN f.n ELSE 0

\* lines 87-102 for the value of the key
RatingOf(rating, f) ==
    IF rating.kind = "missing" \/ (rating.kind = "str" /\ rating.s = <<>>)
    THEN 0
    ELSE IF rating.kind = "num" THEN rating.n
    ELSE IF rating.kind = "bool" THEN (IF rating.b THEN 10 ELSE 0)
    ELSE FloatOrZero(f)

\* a rating parser that knows the decimal point only
ParseRatingDotOnly(item, rating_key) ==
    RatingOf(Get(item, rating_key), ToFloat(Get(item, rating_key).s))

\* sort_by_rating.parse_rating, in tenths
parse_rating(item, rating_key) ==
    RatingOf(Get(item, rating_key), ToFloat(CommaToDot(Get(item, rating_key).s)))

TruthyWords == {<<"t", "r", "u", "e">>, <<"y", "e", "s">>, <<"s", "i", "m">>, <<"1">>}

\* sort_by_favorite.get_favorite_status
get_favorite_status(item, favorite_key) ==
    LET favorite == IF HasKey(item, favorite_key) THEN item[favorite_key] ELSE Bool(FALSE)
    IN  IF favorite.kind = "bool" THEN (IF favorite.b THEN 1 ELSE 0)
        ELSE IF favorite.kind = "num" THEN (IF favorite.n > 0 THEN 1 ELSE 0)
        ELSE IF Lower(favorite.s) \in TruthyWords THEN 1 ELSE 0

SortKey(key, reverse, type) == [key |-> key, reverse |-> reverse, type |-> type]

\* lines 229-230: float(str(val).replace(',', '.'))
NumericOf(v) ==
    IF v.kind = "num" THEN [ok |-> TRUE, n |-> v.n]
    ELSE IF v.kind = "str" THEN ToFloat(CommaToDot(v.s))
    ELSE [ok |-> FALSE, n |-> 0]

\* lines 242-243: val in (True, 1, '1', 'true', 'True', 'yes', 'Yes', 'sim', 'Sim')
BooleanOf(v) ==
    IF v.kind = "bool" THEN v.b
    ELSE IF v.kind = "num" THEN v.n = 10
    ELSE v.s \in {<<"1">>, <<"t", "r", "u", "e">>, <<"T", "r", "u", "e">>,
                  <<"y", "e", "s">>, <<"Y", "e", "s">>, <<"s", "i", "m">>,
                  <<"S", "i", "m">>}

\* lines 232-235, and 236-238 where a conversion raised
CompareNumeric(num1, num2, lesser, greater) ==
    IF ~num1.ok \/ ~num2.ok THEN 0
    ELSE IF num1.n < num2.n THEN lesser
    ELSE IF num1.n > num2.n THEN greater
    ELSE 0

\* lines 245-249
CompareBoolean(bool1, bool2, lesser, greater) ==
    IF bool1 = bool2 THEN 0 ELSE IF bool1 THEN greater ELSE lesser

\* lines 254-257
CompareString(str1, str2, lesser, greater) ==
    IF StrLess(str1, str2) THEN lesser
    ELSE IF StrLess(str2, str1) THEN greater
    ELSE 0

\* lines 219-257 for the two values of a key: lesser is returned where the
\* first is the smaller, greater where it is the larger, 0 where the loop
\* goes on to the next key
CompareValues(val1, val2, type, lesser, greater) ==
    IF val1.kind = "missing" /\ val2.kind = "missing" THEN 0
    ELSE IF val1.kind = "missing" THEN lesser
    ELSE IF val2.kind = "missing" THEN greater
    ELSE IF type = "numeric"
         THEN CompareNumeric(NumericOf(val1), NumericOf(val2), lesser, greater)
    ELSE IF type = "boolean"
         THEN CompareBoolean(BooleanOf(val1), BooleanOf(val2), lesser, greater)
    ELSE CompareString(Lower(StrOf(val1)), Lower(StrOf(val2)), lesser, greater)

\* lines 206-257 for one sort_config
CompareByKey(item1, item2, sort_config) ==
    CompareValues(Get(item1, sort_config.key), Get(item2, sort_config.key),
                  sort_config.type,
                  IF sort_config.reverse THEN 1 ELSE -1,
                  IF sort_config.reverse THEN -1 ELSE 1)

\* a comparator for which the last key of the list decides first
RECURSIVE CompareLastKeyFirst(_, _, _)
CompareLastKeyFirst(item1, item2, sort_keys) ==
    IF sort_keys = <<>>
    THEN 0
    ELSE LET c == CompareByKey(item1, item2, sort_keys[Len(sort_keys)])
         IN  IF c # 0 THEN c ELSE CompareLastKeyFirst(item1, item2, DropLast(sort_keys))

\* sort_by_multiple_keys.compare_items
RECURSIVE compare_items(_, _, _)
compare_items(item1, item2, sort_keys) ==
    IF sort_keys = <<>>
    THEN 0
    ELSE LET c == CompareByKey(item1, item2, Head(sort_keys))
         IN  IF c # 0 THEN c ELSE compare_items(item1, item2, Tail(sort_keys))

(***************************************************************************)
(* sorted(): CPython's list sort for a list shorter than 64 items, which   *)
(* finds the run the list begins with and inserts every later item by      *)
(* binary search.  by says which key function or comparator the call gave. *)
(***************************************************************************)
By(method, key, sort_keys) == [method |-> method, key |-> key, sort_keys |-> sort_keys]

\* a < b under the key function, or under cmp_to_key(compare_items)
Less(by, a, b) ==
    CASE by.method = "sort_by_title" ->
            StrLess(get_sort_key(a, by.key), get_sort_key(b, by.key))
      [] by.method = "sort_by_rating" ->
            parse_rating(a, by.key) < parse_rating(b, by.key)
      [] by.method = "sort_by_favorite" ->
            get_favorite_status(a, by.key) < get_favorite_status(b, by.key)
      [] OTHER -> compare_items(a, b, by.sort_keys) < 0

Reverse(s) == [i \in 1..Len(s) |-> s[Len(s) + 1 - i]]

\* count_run: the length of the run s begins with, for a list of two or
\* more; lt[a][b] says whether a < b
RECURSIVE RunEnd(_, _, _, _)
RunEnd(lt, s, i, descending) ==
    IF i > Len(s) THEN Len(s)
    ELSE IF lt[s[i]][s[i - 1]] = descending
         THEN RunEnd(lt, s, i + 1, descending)
         ELSE i - 1

\* binarysort: where the pivot goes among s[lo+1 .. hi], indices from 0
RECURSIVE InsertionPoint(_, _, _, _, _)
InsertionPoint(lt, s, pivot, lo, hi) ==
    IF lo >= hi THEN lo
    ELSE LET p == lo + ((hi - lo) \div 2)
         IN  IF lt[pivot][s[p + 1]]
             THEN InsertionPoint(lt, s, pivot, lo, p)
             ELSE InsertionPoint(lt, s, pivot, p + 1, hi)

RECURSIVE BinarySort(_, _, _)
BinarySort(lt, s, start) ==
    IF start > Len(s) THEN s
    ELSE LET pivot == s[start]
             at == InsertionPoint(lt, s, pivot, 0, start - 1)
             moved == SubSeq(s, 1, at) \o <<pivot>> \o SubSeq(s, at + 1, start - 1)
                          \o SubSeq(s, start + 1, Len(s))
         IN  BinarySort(lt, moved, start + 1)

ListSort(lt, s) ==
    IF Len(s) < 2 THEN s
    ELSE LET descending == lt[s[2]][s[1]]
             n == RunEnd(lt, s, 3, descending)
             run == IF descending
                    THEN Reverse(SubSeq(s, 1, n)) \o SubSeq(s, n + 1, Len(s))
                    ELSE s
         IN  BinarySort(lt, run, n + 1)

\* the comparisons of the items of s with one another
Comparisons(by, s) ==
    LET items == {s[i] : i \in 1..Len(s)}
    IN  [a \in items |-> [b \in items |-> Less(by, a, b)]]

\* a reverse sort that forgets the order of equal items
SortedUnstable(by, s, reverse) ==
    LET out == ListSort(Comparisons(by, s), s)
    IN  IF reverse THEN Reverse(out) ELSE out

\* sorted(s, key=..., reverse=reverse): a reverse sort reverses the list,
\* sorts it and reverses the outcome, which keeps equal items in order
Sorted(by, s, reverse) ==
    LET out == ListSort(Comparisons(by, s), IF reverse THEN Reverse(s) ELSE s)
    IN  IF reverse THEN Reverse(out) ELSE out

\* what a sort call hands back: a list, or a raised exception
SortReturn(list) == [kind |-> "return", exc |-> "none", list |-> list]
SortRaise(e) == [kind |-> "raise", exc |-> e, list |-> <<>>]

sort_by_title(media_list, title_key, reverse) ==
    IF media_list = <<>>
    THEN SortReturn(<<>>)
    ELSE IF \E i \in 1..Len(media_list) : ~HasKey(media_list[i], title_key)
         THEN SortRaise("KeyError")
         ELSE SortReturn(Sorted(By("sort_by_title", title_key, <<>>), media_list, reverse))

sort_by_rating(media_list, rating_key, reverse) ==
    IF media_list = <<>>
    THEN SortReturn(<<>>)
    ELSE SortReturn(Sorted(By("sort_by_rating", rating_key, <<>>), media_list, reverse))

sort_by_favorite(media_list, favorite_key, reverse) ==
    IF media_list = <<>>
    THEN SortReturn(<<>>)
    ELSE SortReturn(Sorted(By("sort_by_favorite", favorite_key, <<>>), media_list, reverse))

sort_by_multiple_keys(media_list, sort_keys) ==
    IF media_list = <<>> \/ sort_keys = <<>>
    THEN SortReturn(media_list)
    ELSE SortReturn(Sorted(By("sort_by_multiple_keys", UnknownKey, sort_keys),
                           media_list, FALSE))

\* a list that was sorted in place holds the outcome
AfterSortInPlace(media_list, result) == result

\* sorted() builds a new list: the list it was given is as it was
AfterSorted(media_list, result) == media_list

(***************************************************************************)
(* The sorter on its own: the client calls one sort entry point with a     *)
(* list of items, and then once more with the list it got back.            *)
(***************************************************************************)
\* the items lists are made of: titles that differ in case only, a rating
\* as number and as text, a rating that is no number, zero, empty or
\* missing, a favourite flag that is true, false, missing or the text "SIM"
SortItems ==
    {Dict(Str(<<"a">>), Number(90), Bool(TRUE)),
     Dict(Str(<<"b">>), Number(100), Bool(FALSE)),
     Dict(Str(<<"A">>), Str(<<"8", ",", "5">>), Missing),
     Dict(Str(<<"a">>), Number(85), Bool(FALSE)),
     Dict(Str(<<"B">>), Str(<<"x">>), Bool(TRUE)),
     Dict(Str(<<"c">>), Number(0), Missing),
     Dict(Str(<<"b">>), Missing, Bool(TRUE)),
     Dict(Missing, Str(<<>>), Bool(FALSE)),
     Dict(Str(<<"c">>), Missing, Str(<<"S", "I", "M">>))}

RECURSIVE ListsUpTo(_)
ListsUpTo(n) ==
    IF n = 0
    THEN {<<>>}
    ELSE LET shorter == ListsUpTo(n - 1)
         IN  shorter \cup {Append(l, x) : l \in {m \in shorter : Len(m) = n - 1},
                                          x \in SortItems}

\* main.py lines 554-570: favourites first, then the rating, then the title
WatchedSortKeys ==
    <<SortKey(FavoriteKey, TRUE, "boolean"),
      SortKey(RatingKey, TRUE, "numeric"),
      SortKey(TitleKey, FALSE, "string")>>

KeyType(key) ==
    IF key = RatingKey THEN "numeric" ELSE IF key = FavoriteKey THEN "boolean" ELSE "string"

\* the key lists sort_by_multiple_keys is called with
SortKeyLists ==
    {<<>>, WatchedSortKeys}
        \cup {<<SortKey(k, r, KeyType(k))>> : k \in ItemKeys \cup {UnknownKey}, r \in BOOLEAN}

SortEntries == {"sort_by_title", "sort_by_rating", "sort_by_favorite", "sort_by_multiple_keys"}

DefaultKey(e) ==
    IF e = "sort_by_title" THEN TitleKey
    ELSE IF e = "sort_by_rating" THEN RatingKey
    ELSE FavoriteKey

\* the arguments of the call beside the list
SortArguments(e) ==
    IF e = "sort_by_multiple_keys"
    THEN {[key |-> UnknownKey, reverse |-> FALSE, sort_keys |-> ks] : ks \in SortKeyLists}
    ELSE {[key |-> k, reverse |-> r, sort_keys |-> <<>>] :
            k \in {DefaultKey(e), UnknownKey}, r \in BOOLEAN}

\* the call of the entry point e
SortCallOf(e, media_list, args) ==
    CASE e = "sort_by_title" -> sort_by_title(media_list, args.key, args.reverse)
      [] e = "sort_by_rating" -> sort_by_rating(media_list, args.key, args.reverse)
      [] e = "sort_by_favorite" -> sort_by_favorite(media_list, args.key, args.reverse)
      [] OTHER -> sort_by_multiple_keys(media_list, args.sort_keys)

InitSort ==
    /\ entry \in SortEntries
    /\ pc = "call"
    /\ ret = NoResult
    /\ full_title = Null
    /\ title_info = Null
    /\ max_retries = MaxRetries
    /\ req = NoRequest
    /\ first_page = NoMarkup
    /\ count_ret = NoResult
    /\ log = EmptyBag
    /\ max_workers = 1
    /\ media_type = MOVIES
    /\ cat = NoCategory
    /\ tasks = <<>>
    /\ all_items = <<>>
    /\ collection = <<>>
    /\ fetched = EmptyBag
    /\ served = EmptyBag
    /\ favorites = <<>>
    /\ watched = <<>>
    /\ to_watch = <<>>
    /\ item_soup = NoFragment
    /\ media_item = NoItem
    /\ sort_input \in ListsUpTo(MaxItems)
    /\ sort_list = sort_input
    /\ sort_args \in SortArguments(entry)
    /\ sorted_list = <<>>
    /\ sorted_again = <<>>
    /\ movies = ReturnedLists(FALSE, <<>>, <<>>, <<>>)
    /\ call_fetched = EmptyBag

\* the entry point is called with the client's list
SortCall ==
    /\ entry \in SortEntries
    /\ pc = "call"
    /\ LET result == SortCallOf(entry, sort_list, sort_args)
       IN  /\ ret' = IF result.kind = "raise" THEN Raise(result.exc, "missing key")
                     ELSE Return(0)
           /\ sorted_list' = result.list
           /\ sort_list' = AfterSorted(sort_list, result.list)
    /\ pc' = "sorted"
    /\ UNCHANGED <<entry, titleVars, max_retries, max_workers, countVars, log,
                   media_type, cat, poolVars, selfVars, itemVars, callVars, sort_input,
                   sort_args, sorted_again>>

\* the entry point is called again, with the list the first call returned
SortAgain ==
    /\ entry \in SortEntries
    /\ pc = "sorted"
    /\ ret.kind = "return"
    /\ LET result == SortCallOf(entry, sorted_list, sort_args)
       IN  sorted_again' = result.list
    /\ pc' = "returned"
    /\ UNCHANGED <<entry, ret, titleVars, max_retries, max_workers, countVars, log,
                   media_type, cat, poolVars, selfVars, itemVars, callVars, sort_input,
                   sort_list, sort_args, sorted_list>>

NextSort == SortCall \/ SortAgain

SpecSort == InitSort /\ [][NextSort]_vars

\* a single wrapping parenthesis pair removed, where the text is wrapped
Unwrapped(r) ==
    IF StartsWith(r, <<"(">>) /\ EndsWith(r, <<")">>) /\ Len(r) >= 2
    THEN SubSeq(r, 2, Len(r) - 1)
    ELSE r

\* the split the claim describes for a season title: at the first ") " only
SeasonSplit(t) ==
    LET i == Find(t, <<")", " ">>)
    IN  IF i = 0
        THEN <<Strip(t), Strip(t)>>
        ELSE <<Strip(SubSeq(t, 1, i)), Strip(Unwrapped(Drop(t, i + 1)))>>

\* C22: for a raw title with a season marker followed by ") ",
\* extract_title_info splits at the first ") " only: the localized title is
\* the left part with its ")" restored and the original title is the whole
\* right part, a single wrapping parenthesis pair removed; when nothing
\* follows the season marker's parenthesis the localized title is the raw
\* title and the original title equals it.
C22_SeasonSplitsAtFirstParenthesis ==
    (/\ entry = "extract_title_info"
     /\ pc = "returned"
     /\ \/ Contains(full_title, SeasonMarker \o <<" ">>)
        \/ (EndsWith(full_title, SeasonMarker) /\ ~Contains(full_title, <<")", " ">>)))
        => title_info = SeasonSplit(full_title)

(***************************************************************************)
(* Claims about MediaSorter (SpecSort).                                    *)
(***************************************************************************)
SortReturned == entry \in SortEntries /\ pc \in {"sorted", "returned"} /\ ret.kind = "return"

\* C12: every sort entry point leaves the list it was given as it was, in
\* order and in contents, and returns a permutation of the given items.
C12_InputUntouchedOutputPermutation ==
    /\ (entry \in SortEntries /\ pc # "call") => sort_list = sort_input
    /\ SortReturned => SeqToBag(sorted_list) = SeqToBag(sort_input)

\* a call that returned the items in another order than it was given them
C12_Witness ==
    /\ SortReturned
    /\ Len(sort_input) = 3
    /\ sorted_list # sort_input
    /\ sorted_list[1] = sort_input[3]

\* C13: sort_by_title is idempotent: for a list whose items all carry the
\* title key, and for either direction, sorting the sorted list again
\* gives the same order.
C13_SortByTitleIdempotent ==
    (entry = "sort_by_title" /\ pc = "returned" /\ ret.kind = "return")
        => sorted_again = sorted_list

\* a descending sort that moved items and met two titles equal but for case
C13_Witness ==
    /\ entry = "sort_by_title"
    /\ pc = "returned"
    /\ ret.kind = "return"
    /\ sort_args.reverse
    /\ sorted_list # sort_input
    /\ \E i, j \in 1..Len(sorted_list) :
        /\ i < j
        /\ sorted_list[i] # sorted_list[j]
        /\ get_sort_key(sorted_list[i], TitleKey) = get_sort_key(sorted_list[j], TitleKey)

\* the numeric value of a rating, in tenths: the text "8,5" is 8.5, and a
\* rating that is missing, empty or not a number is 0.0
RatingValue(item, key) ==
    LET v == Get(item, key)
    IN  IF v.kind = "num" THEN v.n
        ELSE IF v = Str(<<"8", ",", "5">>) THEN 85
        ELSE 0

\* C14: sort_by_rating orders the items by their numeric rating, where the
\* text "8,5" and the number 8.5 are the same value and a missing, empty or
\* unparseable rating is 0.0; items of equal value keep their input order,
\* ascending and descending.
C14_SortByRatingNumericStable ==
    (entry = "sort_by_rating" /\ SortReturned)
        => /\ \A i, j \in 1..Len(sorted_list) :
                i < j => IF sort_args.reverse
                         THEN RatingValue(sorted_list[i], sort_args.key)
                                >= RatingValue(sorted_list[j], sort_args.key)
                         ELSE RatingValue(sorted_list[i], sort_args.key)
                                <= RatingValue(sorted_list[j], sort_args.key)
           /\ \A n \in {RatingValue(sort_input[i], sort_args.key) : i \in 1..Len(sort_input)} :
                SelectSeq(sorted_list, LAMBDA x : RatingValue(x, sort_args.key) = n)
                    = SelectSeq(sort_input, LAMBDA x : RatingValue(x, sort_args.key) = n)

\* a descending sort that moved the text "8,5" and the number 8.5, in their
\* input order, before an item whose rating is no number
C14_Witness ==
    /\ entry = "sort_by_rating"
    /\ pc = "sorted"
    /\ sort_args.key = RatingKey
    /\ sort_args.reverse
    /\ Len(sort_input) = 3
    /\ sort_input[1][RatingKey] = Str(<<"x">>)
    /\ sort_input[2][RatingKey] = Str(<<"8", ",", "5">>)
    /\ sort_input[3][RatingKey] = Number(85)
    /\ sorted_list = <<sort_input[2], sort_input[3], sort_input[1]>>

IsFavorite(item) == Get(item, FavoriteKey) = Bool(TRUE)

\* C15: under the key list [favourite descending boolean, rating descending
\* numeric, title ascending string], sort_by_multiple_keys places every
\* favourite item before every item that is no favourite, whatever their
\* ratings and titles, whether the latter carries favourite false or has no
\* favourite key.
C15_FavoritesFirst ==
    (entry = "sort_by_multiple_keys" /\ SortReturned /\ sort_args.sort_keys = WatchedSortKeys)
        => \A i, j \in 1..Len(sorted_list) :
              (IsFavorite(sorted_list[i]) /\ ~IsFavorite(sorted_list[j])) => i < j

\* a favourite rated 9.0 was given last, after an item rated 10.0 with
\* favourite false and an item without the favourite key, and came out first
C15_Witness ==
    /\ entry = "sort_by_multiple_keys"
    /\ pc = "sorted"
    /\ sort_args.sort_keys = WatchedSortKeys
    /\ Len(sort_input) = 3
    /\ sort_input[1] = Dict(Str(<<"b">>), Number(100), Bool(FALSE))
    /\ sort_input[2][FavoriteKey] = Missing
    /\ sort_input[3] = Dict(Str(<<"a">>), Number(90), Bool(TRUE))
    /\ sorted_list[1] = sort_input[3]

SingleKeyEntries == {"sort_by_title", "sort_by_rating", "sort_by_favorite"}

\* the one-element key list that matches a single-key call
MatchingKeyList == <<SortKey(sort_args.key, sort_args.reverse, KeyType(sort_args.key))>>

\* C16: each single-key entry point, called with its own key, gives the
\* order the multi-key sort gives for the matching one-element key list,
\* for every list, items whose field is missing included.
C16_SingleKeyIsMultiKey ==
    (entry \in SingleKeyEntries /\ pc = "sorted" /\ sort_args.key = DefaultKey(entry))
        => /\ ret.kind = "return"
           /\ sorted_list = sort_by_multiple_keys(sort_input, MatchingKeyList).list

\* C17: a sort call on a non-empty list that names a key no item has fails
\* with an error raised to the caller, for every sort entry point.
C17_UnknownKeyRaises ==
    LET unknown == IF entry = "sort_by_multiple_keys"
                   THEN \E k \in 1..Len(sort_args.sort_keys) :
                            sort_args.sort_keys[k].key = UnknownKey
                   ELSE sort_args.key = UnknownKey
    IN  (entry \in SortEntries /\ pc = "sorted" /\ sort_input # <<>> /\ unknown)
            => ret.kind = "raise"

Present(item, key) == Get(item, key).kind # "missing"

\* C20: in the multi-key comparator a key whose value both items lack is a
\* tie and the next key decides; when exactly one item lacks it, the item
\* that has the value is placed before the item that lacks it, for an
\* ascending and for a descending key.
C20_PresentBeforeAbsent ==
    (entry = "sort_by_multiple_keys" /\ pc = "sorted" /\ sort_args.sort_keys # <<>>)
        => LET key == sort_args.sort_keys[1].key
           IN  \A i, j \in 1..Len(sorted_list) :
                  (Present(sorted_list[i], key) /\ ~Present(sorted_list[j], key)) => i < j

\* the items of the list the call was given
GivenItems == {sort_input[i] : i \in 1..Len(sort_input)}

\* C21: for every key list the multi-key comparator is a total preorder
\* over the items: compare(a, b) has the opposite sign of compare(b, a),
\* and compare(a, b) <= 0 with compare(b, c) <= 0 implies
\* compare(a, c) <= 0.
C21_ComparatorTotalPreorder ==
    (entry = "sort_by_multiple_keys" /\ pc = "sorted")
        => /\ \A a, b \in GivenItems :
                compare_items(a, b, sort_args.sort_keys)
                    = 0 - compare_items(b, a, sort_args.sort_keys)
           /\ \A a, b, c \in GivenItems :
                (/\ compare_items(a, b, sort_args.sort_keys) <= 0
                 /\ compare_items(b, c, sort_args.sort_keys) <= 0)
                    => compare_items(a, c, sort_args.sort_keys) <= 0

\* a value of the recognized truthy set: native true, 1, or the texts
\* true, 1, yes, sim in any letter case
Truthy(v) ==
    \/ v = Bool(TRUE)
    \/ v = Number(10)
    \/ (v.kind = "str" /\ Lower(v.s) \in {<<"t", "r", "u", "e">>, <<"1">>,
                                            <<"y", "e", "s">>, <<"s", "i", "m">>})

AscendingBoolean == <<SortKey(FavoriteKey, FALSE, "boolean")>>

\* C23: under a boolean key in ascending order the multi-key comparator
\* ranks an item whose value is truthy after every item whose value is
\* present and not truthy, and two truthy or two non-truthy values tie.
C23_TruthyRanksAfter ==
    (entry = "sort_by_multiple_keys" /\ pc = "sorted" /\ sort_args.sort_keys = AscendingBoolean)
        => \A a, b \in {x \in GivenItems : Present(x, FavoriteKey)} :
              compare_items(a, b, AscendingBoolean)
                  = IF Truthy(a[FavoriteKey]) = Truthy(b[FavoriteKey]) THEN 0
                    ELSE IF Truthy(a[FavoriteKey]) THEN 1 ELSE -1

(***************************************************************************)
(* Claims about parse_media_item (SpecItem).                               *)
(***************************************************************************)
Emitted == entry = "parse_media_item" /\ pc = "returned" /\ media_item.ok

\* C11: every record parse_media_item emits has a non-empty localized title
\* and a non-empty original title; an item whose title text leaves an empty
\* title after normalization and trimming is discarded.
C11_EmittedTitlesNonEmpty ==
    Emitted => /\ media_item.item.title_portuguese # <<>>
               /\ media_item.item.title_original # <<>>

(***************************************************************************)
(* Claims about get_media (Spec) and get_media_category (SpecCategory).    *)
(***************************************************************************)
MediaReturned == entry = "get_media" /\ pc = "returned" /\ ret.kind = "return"

\* C1: after get_media returns, every watched record has its favourite flag
\* set, and set to true if and only if its (localized, original) title pair
\* is the pair of some record of the favourites returned by the same call.
C1_FavoriteIffInFavorites ==
    MediaReturned
        => \A i \in 1..Len(watched) :
              /\ watched[i].has_favorito
              /\ watched[i].favorito
                    <=> \E j \in 1..Len(favorites) :
                            /\ favorites[j].nacional = watched[i].nacional
                            /\ favorites[j].original = watched[i].original

\* the favourites hold one title and the watched list holds it and another
C1_Witness ==
    /\ MediaReturned
    /\ Len(favorites) = 1
    /\ \E i, j \in 1..Len(watched) :
        /\ watched[i].favorito
        /\ TitlePair(watched[i]) = TitlePair(favorites[1])
        /\ ~watched[j].favorito
        /\ watched[j].has_favorito

\* C2: get_media_category returns only after every dispatched page fetch has
\* completed and been gathered, and its collection is exactly the multiset
\* union of the records the page fetches returned, for every worker count
\* and every order of completion: no page lost, none counted twice.
C2_AllPagesGatheredOnce ==
    (entry = "get_media_category" /\ pc = "collected")
        => /\ \A p \in 1..Len(tasks) : tasks[p].state = "taken"
           /\ Len(collection) = BagCardinality(fetched)
           /\ \A it \in BagToSet(fetched) :
                 CopiesIn(to_dict(it), SeqToBag(collection)) = CopiesIn(it, fetched)

\* three pages, two workers, every page with records
C2_Witness ==
    /\ entry = "get_media_category"
    /\ pc = "collected"
    /\ max_workers = 2
    /\ Len(tasks) = 3
    /\ Len(collection) >= 5

\* a fragment that holds a wrapper, an image and a title text
Parseable(g) == g.wrapper /\ g.img /\ g.alt # <<>>

\* how many of the served fragments are parseable and carry the title pair t
ServedWithTitle(t) ==
    BagCardinality([g \in {h \in BagToSet(served) :
                                Parseable(h) /\ extract_title_info(h.alt) = t}
                        |-> CopiesIn(g, served)])

Holding(col, t) == Cardinality({i \in 1..Len(col) : TitlePair(col[i]) = <<t[1], t[2]>>})

ServedTitles == {extract_title_info(g.alt) : g \in {h \in BagToSet(served) : Parseable(h)}}

\* C3: for a valid media type get_media never raises and returns its three
\* collections whatever page fetches fail and whatever items cannot be
\* parsed: a failed page contributes nothing, an item without wrapper,
\* image or title text is skipped, and every other item of every page that
\* was served is in the collection, once.
C3_FailSoftCollections ==
    /\ (entry = "get_media" /\ pc = "returned" /\ media_type \in {MOVIES, TV_SHOWS})
        => (ret.kind = "return" /\ to_watch = collection)
    /\ (entry = "get_media" /\ pc \in {"collected", "returned"})
        => /\ \A t \in ServedTitles : Holding(collection, t) = ServedWithTitle(t)
           /\ \A i \in 1..Len(collection) :
                 <<collection[i].nacional, collection[i].original>> \in ServedTitles

\* the to-watch listing had a page that failed and a page with items that
\* cannot be parsed beside items that can
C3_Witness ==
    /\ MediaReturned
    /\ BagIn(LogRecord("error", "fetch_page", "request failed"), log)
    /\ BagIn(LogRecord("warning", "item", "Wrapper span not found in item"), log)
    /\ Len(to_watch) = 2
    /\ Len(watched) >= 1

\* C18: in every collection get_media returns, a record carries the rating
\* field only if its category supports ratings (watched, favourites) and a
\* rating was extracted, and carries the favourite field only if the record
\* is a favourite, with the value true; to-watch records carry neither.
C18_SparseFields ==
    MediaReturned
        => /\ \A i \in 1..Len(favorites) :
                /\ favorites[i].has_nota => favorites[i].nota # NoRating
                /\ favorites[i].has_favorito => favorites[i].favorito
           /\ \A i \in 1..Len(watched) :
                /\ watched[i].has_nota => watched[i].nota # NoRating
                /\ watched[i].has_favorito => watched[i].favorito
           /\ \A i \in 1..Len(to_watch) :
                ~to_watch[i].has_nota /\ ~to_watch[i].has_favorito

NoFetchInFlight == \A p \in 1..Len(tasks) : tasks[p].state = "taken"

\* C19: within one get_media call the watched listing is not asked for
\* before every page fetch of the favourites listing has completed and been
\* gathered into self.favorites, and the favourite flags are written only
\* when the favourites and the watched collection are complete, never while
\* a page fetch is in flight.
C19_FavoritesCompleteBeforeWatched ==
    [][/\ (entry = "get_media" /\ cat = FAVORITES /\ cat' # FAVORITES)
            => /\ cat' = WATCHED
               /\ NoFetchInFlight
               /\ Len(collection) = BagCardinality(fetched)
               /\ favorites' = collection
       /\ (entry = "get_media" /\ cat = WATCHED /\ cat' # WATCHED)
            => /\ NoFetchInFlight
               /\ Len(collection) = BagCardinality(fetched)
               /\ favorites' = favorites
       /\ (entry = "get_media" /\ watched' # watched)
            => (cat = WATCHED /\ cat' = TO_WATCH)]_vars

\* the flags were written after two pages of favourites and two pages of
\* the watched listing had been fetched
C19_Witness ==
    /\ entry = "get_media"
    /\ cat = TO_WATCH
    /\ Len(favorites) >= 3
    /\ Len(watched) >= 3
    /\ \E i \in 1..Len(watched) : watched[i].favorito

\* the requests of the calling thread and of the pool's workers
Requests == {req} \cup {tasks[p].req : p \in 1..Len(tasks)}

\* a request that is to be attempted (again) has failed at most max_retries
\* times, each time retryably; a request that has ended raised after
\* max_retries + 1 retryable failures, or answers with a status outside the
\* forcelist
RetriesBounded ==
    \A r \in Requests :
        /\ r.state = "sending" => r.attempts <= max_retries
        /\ r.state = "raised" => r.attempts = max_retries + 1 /\ Retryable(r.last)
        /\ r.state = "response" => r.attempts <= max_retries + 1 /\ ~Retryable(r.last)

\* process_media_page returns the empty sequence for a request that failed
FailedPageIsEmpty ==
    \A k \in 0..max_retries, o \in Outcomes, c \in Categories :
        LET r == Attempt([NewRequest EXCEPT !.attempts = k], o, max_retries)
        IN  (r.state # "sending" /\ RequestError(r) # "none")
                => process_media_page(r, <<>>, c).result = <<>>

\* C24: a request is re-attempted at most max_retries times and only after
\* a transport failure or a status of the forcelist, process_media_page
\* returns the empty sequence when the request failed, and so get_media,
\* which returns only after its three get_media_category calls have
\* returned, eventually returns, whatever the network answers.
C24_FetchesTerminate ==
    /\ [](RetriesBounded /\ FailedPageIsEmpty)
    /\ <>(pc = "returned")

\* get_media has returned although the only page of the to-watch listing
\* could not be fetched
C24_Witness ==
    /\ pc = "returned"
    /\ ret.kind = "return"
    /\ to_watch = <<>>
    /\ BagIn(LogRecord("error", "fetch_page", "request failed"), log)

(***************************************************************************)
(* Claims about get_media calls in a row (SpecCalls)                       *)
(***************************************************************************)
\* get_media is about to be entered with a media type it does not know
InvalidCall == pc = "call" /\ media_type \notin {MOVIES, TV_SHOWS}

\* C25: a get_media call with a media type other than MOVIES or TV_SHOWS
\* raises ValueError without a request having been sent (no request of the
\* calling thread, no page task, nothing served, fetched or logged) and
\* leaves self.watched, self.favorites and self.to_watch as they were.
C25_InvalidTypeRaisesUntouched ==
    [][InvalidCall =>
        /\ pc' = "returned"
        /\ ret'.kind = "raise"
        /\ ret'.exc = "ValueError"
        /\ UNCHANGED <<req, tasks, served, fetched, call_fetched, log>>
        /\ UNCHANGED <<watched, favorites, to_watch>>]_vars

\* the second call has raised and the three lists of the first call, none
\* of them empty, are still stored
C25_Witness ==
    /\ pc = "returned"
    /\ ret.kind = "raise"
    /\ ret.exc = "ValueError"
    /\ watched # <<>>
    /\ favorites # <<>>
    /\ to_watch # <<>>
    /\ movies = ReturnedLists(TRUE, watched, favorites, to_watch)

\* a watched record as the page fetch returned it, before get_media marked it
Unmarked(d) == [d EXCEPT !.has_favorito = FALSE, !.favorito = FALSE]

\* the records of the three lists a call returned are, each as often as it
\* is returned, records that the page fetches of this call returned
OnlyFetchedInThisCall ==
    (pc = "returned" /\ ret.kind = "return")
        => (SeqToBag(favorites)
                (+) SeqToBag([i \in 1..Len(watched) |-> Unmarked(watched[i])])
                (+) SeqToBag(to_watch)) \sqsubseteq call_fetched

\* C26: in a sequence of get_media calls on one scraper the lists a call
\* returns hold only records fetched during that call, and no step of a
\* later call changes the lists an earlier call returned.
C26_CallsAreIndependent ==
    /\ []OnlyFetchedInThisCall
    /\ [][movies.bound => movies' = movies]_vars

\* the second call has returned lists that differ from the non-empty lists
\* of the first call, which the caller still holds
C26_Witness ==
    /\ pc = "returned"
    /\ ret.kind = "return"
    /\ movies.bound
    /\ movies.watched # <<>>
    /\ movies.favorites # <<>>
    /\ movies.to_watch # <<>>
    /\ watched # <<>>
    /\ watched # movies.watched
    /\ favorites # movies.favorites
    /\ to_watch # movies.to_watch

(***************************************************************************)
(* Claims about get_count_of_pages (SpecPages).                            *)
(***************************************************************************)
Returned == entry = "get_count_of_pages" /\ pc = "returned"

\* the first-page request got a 2xx response, whose markup was parsed
GotMarkup == Returned /\ RequestError(req) = "none"

Undetermined == LogRecord("error", "page_count", "Could not determine page count")

\* C4: for every first-page response (any markup, any pagination link
\* target, any status or transport outcome) get_count_of_pages returns an
\* integer that is at least 1.
C4_PageCountAtLeastOne ==
    Returned => (ret.kind = "return" /\ ret.value >= 1)

C6_FailedResolutionRaises ==
    /\ (GotMarkup /\ first_page.pag # "none" /\ ~first_page.last.present
            /\ first_page.links = <<>> /\ first_page.items = 0)
        => (ret.kind = "raise" /\ ret.exc = "ValueError")
    /\ (Returned /\ RequestError(req) = "HTTPError")
        => (ret.kind = "raise" /\ ret.exc = "HTTPError")

\* the pagination control's links show exactly the page numbers 1..N
NumberedOneTo(m) ==
    /\ m.pag # "none"
    /\ ~m.last.present
    /\ Len(m.links) >= 1
    /\ \A i \in 1..Len(m.links) : m.links[i].a /\ m.links[i].text = i

\* C7: when the first page holds a pagination control whose links are the
\* page numbers 1..N (plain links without target and without a last-page
\* link included), get_count_of_pages returns N.
C7_ReturnsNumberOfLinks ==
    (GotMarkup /\ NumberedOneTo(first_page))
        => ret = Return(Len(first_page.links))

C9_RetryLogsOneWarning ==
    (GotMarkup /\ req.attempts = 2)
        => /\ ret = ParsePageCount(first_page)
           /\ BagCardinality(log) = 1
           /\ \A e \in BagToSet(log) : e.level = "warning"

(***************************************************************************)
(* Claims about the title normalizer (SpecTitle).                          *)
(***************************************************************************)
MovieFormat(t) ==
    /\ ~Contains(t, SeasonMarker)
    /\ Contains(t, <<" ", "(">>)
    /\ EndsWith(t, <<")">>)

\* the split the claim describes: at the first " (" only, the final ")" removed
FirstSplit(t) ==
    LET i == Find(t, <<" ", "(">>)
    IN  <<Strip(SubSeq(t, 1, i - 1)), Strip(DropLast(Drop(t, i + 1)))>>

\* C10: for every raw title that contains " (", ends with ")" and has no
\* season marker, extract_title_info returns the text before the first " ("
\* and the whole remainder after it with only the final ")" removed, both
\* trimmed, also when the title holds more than one " (".
C10_SplitsAtFirstParenthesis ==
    (pc = "returned" /\ MovieFormat(full_title))
        => title_info = FirstSplit(full_title)

=============================================================================
